---- MODULE Spec2Model ----
(***************************************************************************)
(* Model of analytics_fetcher.py: the batch fetch orchestrator             *)
(* (fetch_all_analytics), the single-call helper (make_request), the       *)
(* remote analytics endpoint it talks to and the output file it writes.    *)
(***************************************************************************)
EXTENDS Integers, Sequences, FiniteSets, TLC

(***************************************************************************)
(* Bounds of the model.                                                    *)
(***************************************************************************)
\* Environment faults in one behaviour: calls whose answer deviates from the
\* endpoint's ordinary 2xx JSON answer, plus failed writes of the file.
MaxOdd == 1

(***************************************************************************)
(* Python values.                                                          *)
(***************************************************************************)
\* os.environ.get(name) of a variable that is not set.
None == "<None>"

\* Python truthiness of an optional string: None and "" are falsy.
Falsy(s) == s = None \/ s = ""

\* str.rstrip("/") on the base URLs of the model.
RStripSlash(s) ==
    CASE s = "https://api.altverse.example/"  -> "https://api.altverse.example"
      [] s = "https://api.altverse.example//" -> "https://api.altverse.example"
      [] OTHER -> s

\* A dict is a sequence of <<key, value>> pairs in insertion order.
EmptyDict == << >>

DictKeys(d) == [n \in 1..Len(d) |-> d[n][1]]

DictHas(d, k) == \E n \in 1..Len(d) : d[n][1] = k

DictGet(d, k) == d[CHOOSE n \in 1..Len(d) : d[n][1] = k][2]

\* d[k] = v: replaces the value of an existing key in place, else appends.
DictSet(d, k, v) ==
    IF DictHas(d, k)
    THEN [n \in 1..Len(d) |-> IF d[n][1] = k THEN <<k, v>> ELSE d[n]]
    ELSE Append(d, <<k, v>>)

\* Storing a result, but only when the query succeeded.
StoreResultSkipErrors(d, k, v) == IF "error" \in DOMAIN v THEN d ELSE DictSet(d, k, v)

\* all_metrics[name] = make_request(...) and
\* current_period_results[query_type] = make_request(...).
StoreResult(d, k, v) == DictSet(d, k, v)

(***************************************************************************)
(* The query catalog.                                                      *)
(***************************************************************************)
\* A catalog with the weekly and daily families exchanged.
PERIODIC_JOBS_Swapped ==
    << [period_type |-> "weekly",  limit |-> 54],
       [period_type |-> "daily",   limit |-> 30],
       [period_type |-> "monthly", limit |-> 24] >>

PERIODIC_JOBS ==
    << [period_type |-> "daily",   limit |-> 30],
       [period_type |-> "weekly",  limit |-> 54],
       [period_type |-> "monthly", limit |-> 24] >>

total_queries_to_run ==
    << <<"total_users",          [queryType |-> "total_users"]>>,
       <<"total_activity_stats", [queryType |-> "total_activity_stats"]>>,
       <<"total_swap_stats",     [queryType |-> "total_swap_stats"]>>,
       <<"total_lending_stats",  [queryType |-> "total_lending_stats"]>>,
       <<"total_earn_stats",     [queryType |-> "total_earn_stats"]>> >>

periodic_query_types ==
    << "periodic_user_stats",
       "periodic_activity_stats",
       "periodic_swap_stats",
       "periodic_lending_stats",
       "periodic_earn_stats" >>

\* A payload whose limit is the daily depth whatever the family.
PeriodicPayloadFixedLimit(query_type, job) ==
    [queryType |-> query_type, period_type |-> job.period_type, limit |-> 30]

\* The request body of one periodic query.
PeriodicPayload(query_type, job) ==
    [queryType |-> query_type, period_type |-> job.period_type, limit |-> job.limit]

(***************************************************************************)
(* The remote endpoint and the requests library.                           *)
(***************************************************************************)
JsonBody(v) == [is_json |-> TRUE,  value |-> v,             text |-> ToString(v)]
TextBody(s) == [is_json |-> FALSE, value |-> [raw |-> s],   text |-> s]

\* What the network delivers to one session.post: a response, or no
\* response at all (transport failure, reason is the exception's message).
Delivered(status, reason, body) ==
    [transport_failure |-> FALSE, status |-> status, reason |-> reason, body |-> body]

\* The endpoint's ordinary answer: 200 with a JSON document for the query.
OrdinaryOutcome(query_payload) ==
    Delivered(200, "OK", JsonBody([result |-> query_payload]))

\* The answers that deviate from the ordinary one.
OddOutcomes ==
    { [transport_failure |-> TRUE, status |-> 0, reason |-> "Connection refused",
       body |-> TextBody("")],
      Delivered(500, "Internal Server Error", JsonBody([message |-> "query failed"])),
      Delivered(404, "Not Found", TextBody("<html>no such route</html>")),
      Delivered(200, "OK", TextBody("<html>maintenance</html>")),
      Delivered(200, "OK", JsonBody([error |-> "quota exceeded"])) }

\* An exception object: str(e) is msg, e.response is response when
\* has_response (None otherwise).
Exception(type, msg, has_response, response) ==
    [type |-> type, msg |-> msg, has_response |-> has_response, response |-> response]

NoResponse == Delivered(0, "", TextBody(""))

\* The message requests gives the HTTPError of raise_for_status.
HTTPErrorMessage(status, reason, url) ==
    ToString(status)
      \o (IF status < 500 THEN " Client Error: " ELSE " Server Error: ")
      \o reason \o " for url: " \o url

\* The exception classes that `except RequestException` catches, without
\* the decode error of response.json().
RequestExceptionLegacy == {"ConnectionError", "HTTPError"}

\* The exception classes that `except RequestException` catches:
\* requests.exceptions.JSONDecodeError derives from RequestException.
RequestException == {"ConnectionError", "HTTPError", "JSONDecodeError"}

\* A description that prefers the body of the error response.
ErrorDescriptionFromBody(e) ==
    IF e.has_response
    THEN (IF e.response.body.is_json
          THEN e.response.body.value.message
          ELSE e.response.body.text)
    ELSE e.msg

\* The description stored in the failure result: str(e).
ErrorDescription(e) == e.msg

\* The try block without raise_for_status: any response with a JSON body is
\* returned as a result.
TryBlockNoStatusCheck(url, outcome) ==
    IF outcome.transport_failure
    THEN [raised |-> TRUE, value |-> [error |-> ""],
          e |-> Exception("ConnectionError", outcome.reason, FALSE, NoResponse)]
    ELSE IF ~outcome.body.is_json
    THEN [raised |-> TRUE, value |-> [error |-> ""],
          e |-> Exception("JSONDecodeError",
                          "Expecting value: line 1 column 1 (char 0)",
                          FALSE, NoResponse)]
    ELSE [raised |-> FALSE, value |-> outcome.body.value,
          e |-> Exception("", "", FALSE, NoResponse)]

\* Lines 22-26: the value returned or the exception raised by the try block.
\* [raised, value, e]
TryBlock(url, outcome) ==
    IF outcome.transport_failure
    THEN [raised |-> TRUE, value |-> [error |-> ""],
          e |-> Exception("ConnectionError", outcome.reason, FALSE, NoResponse)]
    ELSE IF outcome.status >= 400 /\ outcome.status < 600
    THEN [raised |-> TRUE, value |-> [error |-> ""],
          e |-> Exception("HTTPError",
                          HTTPErrorMessage(outcome.status, outcome.reason, url),
                          TRUE, outcome)]
    ELSE IF ~outcome.body.is_json
    THEN [raised |-> TRUE, value |-> [error |-> ""],
          e |-> Exception("JSONDecodeError",
                          "Expecting value: line 1 column 1 (char 0)",
                          FALSE, NoResponse)]
    ELSE [raised |-> FALSE, value |-> outcome.body.value,
          e |-> Exception("", "", FALSE, NoResponse)]

\* Lines 29-37: what the handler prints on the diagnostic stream.
HandlerOutput(query_payload, e) ==
    << "Error for query '" \o query_payload.queryType \o "': " \o e.msg >>
    \o (IF e.has_response
        THEN (IF e.response.body.is_json
              THEN << "API Error: " \o ToString(e.response.body.value) >>
              ELSE << "API Error: " \o e.response.body.text >>)
        ELSE << >>)

\* make_request: [raised, value, printed].  raised is TRUE when an exception
\* leaves the function; value is then meaningless.
make_request(url, query_payload, outcome) ==
    LET t == TryBlock(url, outcome) IN
    IF ~t.raised
    THEN [raised |-> FALSE, value |-> t.value, printed |-> << >>]
    ELSE IF t.e.type \in RequestException
    THEN [raised |-> FALSE,
          value |-> [error |-> ErrorDescription(t.e)],
          printed |-> HandlerOutput(query_payload, t.e)]
    ELSE [raised |-> TRUE, value |-> [error |-> ""], printed |-> << >>]

\* Line 45: the configuration check, looking at the credential only.
ConfigMissingKeyOnly(key, url) == Falsy(key)

\* Line 45: not API_KEY or not BASE_URL.
ConfigMissing(key, url) == Falsy(key) \/ Falsy(url)

\* An exit status that is 0 also after sys.exit(1).
ExitStatusAlwaysZero(how) == 0

\* The exit status of the process, by the way it ends: sys.exit(1) of line
\* 50, an exception that leaves fetch_all_analytics, or the end of the script.
ExitStatus(how) ==
    CASE how = "sys.exit(1)"        -> 1
      [] how = "uncaught exception" -> 1
      [] how = "end of script"      -> 0

(***************************************************************************)
(* The output file.                                                        *)
(***************************************************************************)
NoFile == [exists |-> FALSE, content |-> << >>]

\* json.dump(all_metrics, f, indent=2) as the chunks it writes: the opening
\* brace, one chunk per top-level key in insertion order, the closing brace.
Serialize(d) ==
    << "{" >> \o [n \in 1..Len(d) |-> ToString(d[n])] \o << "}" >>

Prefix(s, k) == SubSeq(s, 1, k)

\* open(output_filename, "a"): keeps what the file holds.
OpenAppend(file) == [exists |-> TRUE, content |-> file.content]

\* open(output_filename, "w"): creates the file or truncates it.
OpenWrite(file) == [exists |-> TRUE, content |-> << >>]

\* The file after lines 114-115 when the step fails at fail_at: -1 is a
\* failed open, k >= 0 an IOError after k chunks were written, and
\* Len(chunks) no failure at all.
FileAfterWrite(file, chunks, fail_at) ==
    IF fail_at < 0 THEN file
    ELSE LET f == OpenWrite(file) IN
         [exists |-> TRUE, content |-> f.content \o Prefix(chunks, fail_at)]

(***************************************************************************)
(* State.                                                                  *)
(***************************************************************************)
VARIABLES
    API_KEY,                 \* module constant read from the environment
    BASE_URL,                \* module constant read from the environment
    pc,                      \* position in fetch_all_analytics
    analytics_endpoint,      \* local: URL of the endpoint
    session,                 \* local: [open, headers]
    all_metrics,             \* local: the report being built
    current_period_results,  \* local: results of the period in progress
    i,                       \* index in total_queries_to_run
    job,                     \* index in PERIODIC_JOBS
    q,                       \* index in periodic_query_types
    in_flight,               \* requests posted and not yet answered
    calls,                   \* requests posted in this run, in order
    served,                  \* what the network delivered in this run, in order
    endpoint,                \* the endpoint's answer per call position, once given
    faults_left,             \* environment faults still allowed
    stderr,                  \* diagnostic stream of this run
    exit_code,               \* process exit status, -1 while running
    crashed,                 \* an exception left fetch_all_analytics
    disk,                    \* analytics.json: [exists, content]
    disk_at_start,           \* analytics.json when the run started
    write_attempts,          \* times the write step ran in this run
    write_failed,            \* the write step of this run reported an IOError
    rerun,                   \* TRUE in the second run of the script
    prev_metrics,            \* report of the previous run that finished fetching
    prev_disk                \* file left by the previous run whose write succeeded

vars == << API_KEY, BASE_URL, pc, analytics_endpoint, session, all_metrics,
           current_period_results, i, job, q, in_flight, calls, served, endpoint,
           faults_left, stderr, exit_code, crashed, disk, disk_at_start,
           write_attempts, write_failed, rerun, prev_metrics, prev_disk >>

EnvValuesKey == {None, "", "secret-key"}
EnvValuesUrl == {None, "", "https://api.altverse.example/"}

NoSession == [open |-> FALSE, headers |-> EmptyDict]
NoMetrics == << <<"<none>", [error |-> ""]>> >>

\* The state of a process at its start: module constants read, nothing run.
ProcessStart ==
    /\ API_KEY' \in EnvValuesKey
    /\ BASE_URL' \in EnvValuesUrl
    /\ pc' = "start"
    /\ analytics_endpoint' = ""
    /\ session' = NoSession
    /\ all_metrics' = EmptyDict
    /\ current_period_results' = EmptyDict
    /\ i' = 1
    /\ job' = 1
    /\ q' = 1
    /\ in_flight' = << >>
    /\ calls' = << >>
    /\ served' = << >>
    /\ stderr' = << >>
    /\ exit_code' = -1
    /\ crashed' = FALSE
    /\ write_attempts' = 0
    /\ write_failed' = FALSE

\* The first process start, on a file system without analytics.json.
Init ==
    /\ API_KEY \in EnvValuesKey
    /\ BASE_URL \in EnvValuesUrl
    /\ pc = "start"
    /\ analytics_endpoint = ""
    /\ session = NoSession
    /\ all_metrics = EmptyDict
    /\ current_period_results = EmptyDict
    /\ i = 1
    /\ job = 1
    /\ q = 1
    /\ in_flight = << >>
    /\ calls = << >>
    /\ served = << >>
    /\ endpoint = << >>
    /\ stderr = << >>
    /\ exit_code = -1
    /\ crashed = FALSE
    /\ disk = NoFile
    /\ disk_at_start = NoFile
    /\ write_attempts = 0
    /\ write_failed = FALSE
    /\ rerun = FALSE
    /\ prev_metrics = NoMetrics
    /\ prev_disk = NoFile
    /\ faults_left = MaxOdd

(***************************************************************************)
(* fetch_all_analytics, step by step.                                      *)
(***************************************************************************)
headers == << <<"x-api-key", API_KEY>>, <<"Content-Type", "application/json">> >>

\* Lines 45-62: the configuration check, then the endpoint URL, the empty
\* report and the session.
Start ==
    /\ pc = "start"
    /\ IF ConfigMissing(API_KEY, BASE_URL)
       THEN /\ stderr' = Append(stderr,
                   "Error: ANALYTICS_API_KEY and ALTVERSE_API_URL environment variables must be set.")
            /\ exit_code' = ExitStatus("sys.exit(1)")
            /\ pc' = "done"
            /\ UNCHANGED << analytics_endpoint, session, all_metrics >>
       ELSE /\ analytics_endpoint' = RStripSlash(BASE_URL) \o "/analytics"
            /\ all_metrics' = EmptyDict
            /\ session' = [open |-> TRUE, headers |-> headers]
            /\ pc' = "totals"
            /\ UNCHANGED << stderr, exit_code >>
    /\ UNCHANGED << API_KEY, BASE_URL, current_period_results, i, job, q, in_flight,
                    calls, served, endpoint, faults_left, crashed, disk, disk_at_start,
                    write_attempts, write_failed, rerun, prev_metrics, prev_disk >>

\* session.post(url, json=query_payload) leaves the process (line 22).
Post(query_payload) ==
    /\ in_flight = << >>
    /\ calls' = Append(calls, [url |-> analytics_endpoint, json |-> query_payload,
                               headers |-> session.headers])
    /\ in_flight' = << query_payload >>

\* What the network may deliver to the n-th call of a run: the answer the
\* endpoint gave to that call before, else its ordinary answer or, while the
\* fault budget lasts, a deviating one.
Deliverable(n, query_payload) ==
    IF n <= Len(endpoint) THEN { endpoint[n] }
    ELSE { OrdinaryOutcome(query_payload) }
         \cup (IF faults_left > 0 THEN OddOutcomes ELSE {})

\* The environment's bookkeeping for one delivery.
Deliver(outcome, query_payload) ==
    LET n == Len(served) + 1 IN
    /\ served' = Append(served, outcome)
    /\ endpoint' = IF n <= Len(endpoint) THEN endpoint ELSE Append(endpoint, outcome)
    /\ faults_left' = IF n > Len(endpoint) /\ outcome # OrdinaryOutcome(query_payload)
                      THEN faults_left - 1 ELSE faults_left

\* An exception leaves fetch_all_analytics: the with block closes the
\* session and the interpreter ends the process with a traceback.
Crash ==
    /\ crashed' = TRUE
    /\ session' = [session EXCEPT !.open = FALSE]
    /\ exit_code' = ExitStatus("uncaught exception")
    /\ pc' = "done"

\* A loop that stays on a query whose result is a failure.
NextIndexRetry(idx, value) == IF "error" \in DOMAIN value THEN idx ELSE idx + 1

\* The for loops of lines 75 and 98 move on to the next query whatever the
\* result of the one just made.
NextIndex(idx, value) == idx + 1

\* Lines 75-77, first half: the next one-shot query is posted.
IssueTotal ==
    /\ pc = "totals"
    /\ i <= Len(total_queries_to_run)
    /\ Post(total_queries_to_run[i][2])
    /\ UNCHANGED << API_KEY, BASE_URL, pc, analytics_endpoint, session, all_metrics,
                    current_period_results, i, job, q, served, endpoint, faults_left,
                    stderr, exit_code, crashed, disk, disk_at_start, write_attempts,
                    write_failed, rerun, prev_metrics, prev_disk >>

\* Lines 75-77, second half: make_request returns and its result is stored.
ResolveTotal ==
    /\ pc = "totals"
    /\ in_flight # << >>
    /\ \E outcome \in Deliverable(Len(served) + 1, in_flight[1]) :
         LET r == make_request(analytics_endpoint, in_flight[1], outcome) IN
         /\ Deliver(outcome, in_flight[1])
         /\ in_flight' = << >>
         /\ stderr' = stderr \o r.printed
         /\ IF r.raised
            THEN Crash /\ UNCHANGED << all_metrics, i >>
            ELSE /\ all_metrics' = StoreResult(all_metrics, total_queries_to_run[i][1], r.value)
                 /\ i' = NextIndex(i, r.value)
                 /\ UNCHANGED << crashed, session, exit_code, pc >>
    /\ UNCHANGED << API_KEY, BASE_URL, analytics_endpoint, current_period_results,
                    job, q, calls, disk, disk_at_start, write_attempts, write_failed,
                    rerun, prev_metrics, prev_disk >>

\* Line 79: the one-shot loop is over.
BeginPeriodic ==
    /\ pc = "totals"
    /\ i > Len(total_queries_to_run)
    /\ in_flight = << >>
    /\ all_metrics' = DictSet(all_metrics, "periodic_stats", EmptyDict)
    /\ job' = 1
    /\ pc' = "job"
    /\ UNCHANGED << API_KEY, BASE_URL, analytics_endpoint, session,
                    current_period_results, i, q, in_flight, calls, served, endpoint,
                    faults_left, stderr, exit_code, crashed, disk, disk_at_start,
                    write_attempts, write_failed, rerun, prev_metrics, prev_disk >>

\* Lines 81-96: the next job of PERIODIC_JOBS starts with empty results.
BeginJob ==
    /\ pc = "job"
    /\ job <= Len(PERIODIC_JOBS)
    /\ current_period_results' = EmptyDict
    /\ q' = 1
    /\ pc' = "periodic"
    /\ UNCHANGED << API_KEY, BASE_URL, analytics_endpoint, session, all_metrics, i,
                    job, in_flight, calls, served, endpoint, faults_left, stderr,
                    exit_code, crashed, disk, disk_at_start, write_attempts,
                    write_failed, rerun, prev_metrics, prev_disk >>

\* Lines 98-107, first half: the next periodic query is posted.
IssuePeriodic ==
    /\ pc = "periodic"
    /\ q <= Len(periodic_query_types)
    /\ Post(PeriodicPayload(periodic_query_types[q], PERIODIC_JOBS[job]))
    /\ UNCHANGED << API_KEY, BASE_URL, pc, analytics_endpoint, session, all_metrics,
                    current_period_results, i, job, q, served, endpoint, faults_left,
                    stderr, exit_code, crashed, disk, disk_at_start, write_attempts,
                    write_failed, rerun, prev_metrics, prev_disk >>

\* Lines 98-107, second half: make_request returns and its result is stored.
ResolvePeriodic ==
    /\ pc = "periodic"
    /\ in_flight # << >>
    /\ \E outcome \in Deliverable(Len(served) + 1, in_flight[1]) :
         LET r == make_request(analytics_endpoint, in_flight[1], outcome) IN
         /\ Deliver(outcome, in_flight[1])
         /\ in_flight' = << >>
         /\ stderr' = stderr \o r.printed
         /\ IF r.raised
            THEN Crash /\ UNCHANGED << current_period_results, q >>
            ELSE /\ current_period_results' =
                      StoreResult(current_period_results, periodic_query_types[q], r.value)
                 /\ q' = NextIndex(q, r.value)
                 /\ UNCHANGED << crashed, session, exit_code, pc >>
    /\ UNCHANGED << API_KEY, BASE_URL, analytics_endpoint, all_metrics, i, job, calls,
                    disk, disk_at_start, write_attempts, write_failed, rerun,
                    prev_metrics, prev_disk >>

\* Line 110: the results of the period are stored under its period type.
StorePeriod ==
    /\ pc = "periodic"
    /\ q > Len(periodic_query_types)
    /\ in_flight = << >>
    /\ all_metrics' =
          DictSet(all_metrics, "periodic_stats",
                  DictSet(DictGet(all_metrics, "periodic_stats"),
                          PERIODIC_JOBS[job].period_type, current_period_results))
    /\ job' = job + 1
    /\ pc' = "job"
    /\ UNCHANGED << API_KEY, BASE_URL, analytics_endpoint, session,
                    current_period_results, i, q, in_flight, calls, served, endpoint,
                    faults_left, stderr, exit_code, crashed, disk, disk_at_start,
                    write_attempts, write_failed, rerun, prev_metrics, prev_disk >>

\* A loop over PERIODIC_JOBS that is left after its first job.
JobsDoneAfterFirst(n) == n > 1

\* The loop of line 81 is over when every job of PERIODIC_JOBS has run.
JobsDone(n) == n > Len(PERIODIC_JOBS)

\* End of the with block of line 59: the session is closed.
EndSession ==
    /\ pc = "job"
    /\ JobsDone(job)
    /\ session' = [session EXCEPT !.open = FALSE]
    /\ pc' = "write"
    /\ UNCHANGED << API_KEY, BASE_URL, analytics_endpoint, all_metrics,
                    current_period_results, i, job, q, in_flight, calls, served,
                    endpoint, faults_left, stderr, exit_code, crashed, disk,
                    disk_at_start, write_attempts, write_failed, rerun, prev_metrics,
                    prev_disk >>

\* Lines 112-126: the report is written, an IOError is reported, and the
\* script ends.
WriteOutput ==
    /\ pc = "write"
    /\ LET chunks == Serialize(all_metrics) IN
       \E fail_at \in (IF faults_left > 0 THEN -1 .. Len(chunks) ELSE { Len(chunks) }) :
         /\ disk' = FileAfterWrite(disk, chunks, fail_at)
         /\ write_failed' = (fail_at < Len(chunks))
         /\ faults_left' = IF fail_at < Len(chunks) THEN faults_left - 1 ELSE faults_left
         /\ stderr' = IF fail_at < Len(chunks)
                      THEN Append(stderr, "Error: Could not write to file analytics.json")
                      ELSE stderr
    /\ write_attempts' = write_attempts + 1
    /\ exit_code' = ExitStatus("end of script")
    /\ pc' = "done"
    /\ UNCHANGED << API_KEY, BASE_URL, analytics_endpoint, session, all_metrics,
                    current_period_results, i, job, q, in_flight, calls, served,
                    endpoint, crashed, disk_at_start, rerun, prev_metrics, prev_disk >>

\* The operator runs the script again: a new process, the same file system
\* and the same endpoint.
Restart ==
    /\ pc = "done"
    /\ ~rerun
    /\ ProcessStart
    /\ rerun' = TRUE
    /\ disk_at_start' = disk
    /\ prev_metrics' = IF write_attempts > 0 THEN all_metrics ELSE prev_metrics
    /\ prev_disk' = IF write_attempts > 0 /\ ~write_failed THEN disk ELSE prev_disk
    /\ UNCHANGED << disk, endpoint, faults_left >>

Next ==
    \/ Start
    \/ IssueTotal
    \/ ResolveTotal
    \/ BeginPeriodic
    \/ BeginJob
    \/ IssuePeriodic
    \/ ResolvePeriodic
    \/ StorePeriod
    \/ EndSession
    \/ WriteOutput

NextTwice == Next \/ Restart

Spec == Init /\ [][Next]_vars

SpecTwice == Init /\ [][NextTwice]_vars

(***************************************************************************)
(* Vocabulary of the properties: the catalog and the call outcomes as the  *)
(* specification states them.                                              *)
(***************************************************************************)
OneShotNames ==
    << "total_users", "total_activity_stats", "total_swap_stats",
       "total_lending_stats", "total_earn_stats" >>

PeriodNames == << "daily", "weekly", "monthly" >>

PeriodicNames ==
    << "periodic_user_stats", "periodic_activity_stats", "periodic_swap_stats",
       "periodic_lending_stats", "periodic_earn_stats" >>

HistoryDepth(period) ==
    CASE period = "daily" -> 30 [] period = "weekly" -> 54 [] period = "monthly" -> 24

CatalogSize == Len(OneShotNames) + Len(PeriodNames) * Len(PeriodicNames)

SeqToSet(s) == { s[n] : n \in 1..Len(s) }

IsPrefixOf(s, t) == Len(s) <= Len(t) /\ \A n \in 1..Len(s) : s[n] = t[n]

\* The n-th descriptor of the catalog: its query type and, for a periodic
\* one, its period type.
IsOneShot(n) == n <= Len(OneShotNames)
PeriodOf(n) == PeriodNames[((n - Len(OneShotNames) - 1) \div Len(PeriodicNames)) + 1]
QueryOf(n) ==
    IF IsOneShot(n) THEN OneShotNames[n]
    ELSE PeriodicNames[((n - Len(OneShotNames) - 1) % Len(PeriodicNames)) + 1]

\* A call failed: no response, a non-2xx status, or a 2xx body that is not JSON.
CallFailed(outcome) ==
    \/ outcome.transport_failure
    \/ outcome.status < 200
    \/ outcome.status > 299
    \/ ~outcome.body.is_json

\* The result recorded for the n-th descriptor, in the report or, while its
\* period is still being fetched, in the results of that period.
RecordedEntry(n) ==
    IF IsOneShot(n) THEN DictGet(all_metrics, QueryOf(n))
    ELSE IF /\ DictHas(all_metrics, "periodic_stats")
            /\ DictHas(DictGet(all_metrics, "periodic_stats"), PeriodOf(n))
         THEN DictGet(DictGet(DictGet(all_metrics, "periodic_stats"), PeriodOf(n)), QueryOf(n))
         ELSE DictGet(current_period_results, QueryOf(n))

\* The data collection of this run is over and the report is what gets serialized.
FetchFinished == pc = "write" \/ (pc = "done" /\ write_attempts > 0)

ConfigurationValid == ~(API_KEY \in {None, ""}) /\ ~(BASE_URL \in {None, ""})

SomeCallFailed == \E n \in 1..Len(served) : CallFailed(served[n])

(***************************************************************************)
(* Properties.                                                             *)
(***************************************************************************)
\* C1: the report that is serialized holds exactly the 20 catalog entries:
\* the five one-shot keys plus periodic_stats, periodic_stats holds exactly
\* daily, weekly and monthly, and each of them exactly the five periodic
\* keys, whichever calls failed.
C1_ReportHoldsExactlyTheCatalog ==
    FetchFinished =>
        /\ Len(all_metrics) = Len(OneShotNames) + 1
        /\ SeqToSet(DictKeys(all_metrics)) = SeqToSet(OneShotNames) \cup {"periodic_stats"}
        /\ LET periodic_stats == DictGet(all_metrics, "periodic_stats") IN
           /\ Len(periodic_stats) = Len(PeriodNames)
           /\ SeqToSet(DictKeys(periodic_stats)) = SeqToSet(PeriodNames)
           /\ \A p \in 1..Len(periodic_stats) :
                /\ Len(periodic_stats[p][2]) = Len(PeriodicNames)
                /\ SeqToSet(DictKeys(periodic_stats[p][2])) = SeqToSet(PeriodicNames)

C1_Witness ==
    /\ pc = "done"
    /\ write_attempts = 1
    /\ ~write_failed
    /\ SomeCallFailed

\* C2: in the finished report the entry of a descriptor whose call failed is
\* {error: <description>} and the entry of a descriptor whose call succeeded
\* is exactly the parsed body returned for it, whatever its siblings got.
C2_EntryDependsOnOwnCallOnly ==
    FetchFinished =>
        \A n \in 1..CatalogSize :
            IF CallFailed(served[n])
            THEN DOMAIN RecordedEntry(n) = {"error"}
            ELSE RecordedEntry(n) = served[n].body.value

C2_Witness ==
    /\ FetchFinished
    /\ \E n \in 1..CatalogSize : served[n].status = 500
    /\ \E n \in 1..CatalogSize : ~CallFailed(served[n])

\* C3: once configuration is validated no exception leaves make_request:
\* every failed call has a failure sentinel recorded for its descriptor and
\* the run goes on until all 20 descriptors are processed.
C3_BatchNeverAborts ==
    /\ ~crashed
    /\ \A n \in 1..Len(served) :
         CallFailed(served[n]) => DOMAIN RecordedEntry(n) = {"error"}
    /\ (pc = "done" /\ ConfigurationValid) =>
         /\ Len(served) = CatalogSize
         /\ write_attempts = 1

C3_Witness ==
    /\ pc = "done"
    /\ Len(served) = CatalogSize
    /\ \E n \in 1..(CatalogSize - 1) :
         /\ served[n].status = 200
         /\ ~served[n].body.is_json

\* The description the priority order of C4 asks for: the structured message
\* of a JSON error body, else the raw text of the error response, else (no
\* response) the transport exception's message.
DescriptionByPriority(outcome) ==
    IF outcome.transport_failure THEN outcome.reason
    ELSE IF outcome.body.is_json THEN outcome.body.value.message
    ELSE outcome.body.text

HasErrorResponse(outcome) ==
    ~outcome.transport_failure /\ (outcome.status < 200 \/ outcome.status > 299)

\* C4 as claimed: the description stored in a failure sentinel is the
\* structured message of the error response if its body is JSON, else the raw
\* text of the error response, and the transport exception's message only
\* when there is no response.
C4_DescriptionFollowsPriority ==
    \A n \in 1..Len(served) :
        (HasErrorResponse(served[n]) \/ served[n].transport_failure) =>
            RecordedEntry(n).error = DescriptionByPriority(served[n])

\* C4 as amended: the description stored in a failure sentinel is always the
\* exception's own message: the transport exception's message when there is
\* no response, the status line of raise_for_status when the endpoint
\* returned an error response (whatever its body), and the decoder's message
\* for a 2xx body that is not JSON.  The priority order (structured body,
\* else raw text) holds for the "API Error" line on the diagnostic stream,
\* printed only when an error response exists.
C4_DescriptionIsExceptionMessage ==
    \A n \in 1..Len(served) :
        LET o == served[n] IN
        CallFailed(o) =>
            /\ RecordedEntry(n).error =
                 (IF o.transport_failure THEN o.reason
                  ELSE IF HasErrorResponse(o)
                  THEN ToString(o.status)
                         \o (IF o.status < 500 THEN " Client Error: " ELSE " Server Error: ")
                         \o o.reason \o " for url: " \o analytics_endpoint
                  ELSE "Expecting value: line 1 column 1 (char 0)")
            /\ HasErrorResponse(o) =>
                 (IF o.body.is_json
                  THEN ("API Error: " \o ToString(o.body.value)) \in SeqToSet(stderr)
                  ELSE ("API Error: " \o o.body.text) \in SeqToSet(stderr))
            /\ Len(stderr) =
                 Cardinality({ m \in 1..Len(served) : CallFailed(served[m]) })
                 + Cardinality({ m \in 1..Len(served) : HasErrorResponse(served[m]) })
                 + (IF write_failed THEN 1 ELSE 0)

C4_Witness ==
    /\ pc = "done"
    /\ \E n \in 1..Len(served) :
         /\ served[n].status = 500
         /\ served[n].body.is_json
         /\ "error" \in DOMAIN RecordedEntry(n)

\* C5: if ANALYTICS_API_KEY or ALTVERSE_API_URL is missing, the run reports a
\* configuration error and stops before any network activity: no POST call
\* is issued in that run.
C5_MissingConfigMeansNoCalls ==
    (API_KEY = None \/ BASE_URL = None) =>
        /\ Len(calls) = 0
        /\ in_flight = << >>
        /\ pc \in {"start", "done"}
        /\ pc = "done" =>
             /\ Len(stderr) = 1
             /\ exit_code # 0
             /\ write_attempts = 0

C5_Witness ==
    /\ pc = "done"
    /\ API_KEY = "secret-key"
    /\ BASE_URL = None
    /\ Len(calls) = 0

\* C6: the exit code is 1 when configuration validation fails and 0 in every
\* other run, however many queries failed and whether or not the write failed.
C6_ExitCodeReflectsConfigurationOnly ==
    /\ pc = "done" => exit_code = (IF ConfigurationValid THEN 0 ELSE 1)
    /\ pc # "done" => exit_code = -1

C6_Witness ==
    /\ pc = "done"
    /\ exit_code = 0
    /\ SomeCallFailed

\* C7 as claimed: when the write step fails, the file left on disk is the
\* complete output of the previous successful write or is absent, never a
\* truncated or partially written file.
C7_FailedWriteKeepsPriorOutput ==
    (pc = "done" /\ write_failed) =>
        \/ ~disk.exists
        \/ (prev_disk.exists /\ disk = prev_disk)

\* Order of the 20 calls and of the keys, as C8 states it.
ExpectedTopKeys == OneShotNames \o << "periodic_stats" >>

\* C8: the calls are issued in one fixed order whatever their outcomes: the
\* five one-shot queries, then for daily, weekly and monthly the five
\* periodic queries; the keys of the report are inserted in the same order.
C8_FixedCallAndKeyOrder ==
    /\ Len(calls) <= CatalogSize
    /\ \A n \in 1..Len(calls) :
         /\ calls[n].json.queryType = QueryOf(n)
         /\ IsOneShot(n) => DOMAIN calls[n].json = {"queryType"}
         /\ ~IsOneShot(n) => /\ "period_type" \in DOMAIN calls[n].json
                             /\ calls[n].json.period_type = PeriodOf(n)
    /\ IsPrefixOf(DictKeys(all_metrics), ExpectedTopKeys)
    /\ IsPrefixOf(DictKeys(current_period_results), PeriodicNames)
    /\ DictHas(all_metrics, "periodic_stats") =>
         LET periodic_stats == DictGet(all_metrics, "periodic_stats") IN
         /\ IsPrefixOf(DictKeys(periodic_stats), PeriodNames)
         /\ \A p \in 1..Len(periodic_stats) : DictKeys(periodic_stats[p][2]) = PeriodicNames
    /\ FetchFinished =>
         /\ DictKeys(all_metrics) = ExpectedTopKeys
         /\ DictKeys(DictGet(all_metrics, "periodic_stats")) = PeriodNames

C8_Witness ==
    /\ pc = "done"
    /\ Len(calls) = CatalogSize
    /\ SomeCallFailed

\* C9 as claimed: every periodic request body carries queryType, periodType
\* set to its family's period type, and limit set to the family's history
\* depth; every one-shot request body carries queryType only.
C9_PeriodicBodyCarriesPeriodType ==
    \A n \in 1..Len(calls) :
        IF IsOneShot(n)
        THEN DOMAIN calls[n].json = {"queryType"}
        ELSE /\ DOMAIN calls[n].json = {"queryType", "periodType", "limit"}
             /\ calls[n].json.periodType = PeriodOf(n)
             /\ calls[n].json.limit = HistoryDepth(PeriodOf(n))

\* C9 as amended: every periodic request body carries queryType, the period
\* type of its family under the key period_type, and limit set to the
\* family's history depth (daily 30, weekly 54, monthly 24); every one-shot
\* request body carries queryType only.
C9_PeriodicBodyCarriesPeriodAndLimit ==
    \A n \in 1..Len(calls) :
        IF IsOneShot(n)
        THEN /\ DOMAIN calls[n].json = {"queryType"}
             /\ calls[n].json.queryType = QueryOf(n)
        ELSE /\ DOMAIN calls[n].json = {"queryType", "period_type", "limit"}
             /\ calls[n].json.queryType = QueryOf(n)
             /\ calls[n].json.period_type = PeriodOf(n)
             /\ calls[n].json.limit = HistoryDepth(PeriodOf(n))

C9_Witness ==
    /\ Len(calls) = CatalogSize
    /\ calls[CatalogSize].json.limit = 24
    /\ calls[Len(OneShotNames) + 1].json.limit = 30

\* C10: a second run against an endpoint that answers every descriptor as in
\* the first run produces the same report, and a successful write leaves the
\* same file content: nothing is carried from one run to the next.
C10_SecondRunSameReport ==
    (rerun /\ FetchFinished /\ prev_metrics # NoMetrics) =>
        /\ all_metrics = prev_metrics
        /\ (pc = "done" /\ ~write_failed /\ prev_disk.exists) => disk = prev_disk

C10_Witness ==
    /\ rerun
    /\ pc = "done"
    /\ write_attempts = 1
    /\ ~write_failed
    /\ prev_disk.exists
    /\ prev_metrics # NoMetrics
    /\ SomeCallFailed

\* C11: a run that passes configuration validation issues exactly 20 POST
\* calls, one per catalog descriptor; a call is resolved before the next one
\* is issued, so at most one request is in flight; no descriptor is issued a
\* second time, whether its call failed or not.
C11_OneCallPerDescriptorInSequence ==
    /\ Len(in_flight) <= 1
    /\ Len(calls) = Len(served) + Len(in_flight)
    /\ in_flight # << >> => in_flight[1] = calls[Len(calls)].json
    /\ Len(calls) <= CatalogSize
    /\ \A m, n \in 1..Len(calls) : m # n => calls[m].json # calls[n].json
    /\ (pc \in {"write", "done"} /\ ConfigurationValid) =>
         /\ Len(calls) = CatalogSize
         /\ \A n \in 1..CatalogSize : calls[n].json.queryType = QueryOf(n)

C11_Witness ==
    /\ pc = "done"
    /\ Len(calls) = CatalogSize
    /\ Len(served) = CatalogSize
    /\ \E n \in 1..(CatalogSize - 1) : served[n].transport_failure

\* The sentinel rule of the data model: a top-level object that holds
\* exactly an error key with a string value.
IsSentinel(v) == DOMAIN v = {"error"}

\* C12 as claimed: a recorded entry is a failure sentinel if and only if the
\* call for its descriptor failed; no successful call yields an entry that
\* the sentinel rule classifies as a failure.
C12_SentinelIffCallFailed ==
    \A n \in 1..Len(served) :
        IsSentinel(RecordedEntry(n)) <=> CallFailed(served[n])

\* C12 as amended: the entry of a failed call is a failure sentinel; the
\* entry of a successful call is the parsed body as returned, so it is
\* classified as a failure by the sentinel rule exactly when the 2xx body is
\* itself an object holding exactly an error string key.
C12_SentinelIffFailedOrErrorShapedBody ==
    \A n \in 1..Len(served) :
        /\ CallFailed(served[n]) => IsSentinel(RecordedEntry(n))
        /\ ~CallFailed(served[n]) =>
             /\ RecordedEntry(n) = served[n].body.value
             /\ IsSentinel(RecordedEntry(n)) <=> IsSentinel(served[n].body.value)

C12_Witness ==
    /\ pc = "done"
    /\ \E n \in 1..Len(served) :
         /\ ~CallFailed(served[n])
         /\ served[n].status = 200
         /\ IsSentinel(served[n].body.value)
         /\ IsSentinel(RecordedEntry(n))

\* C13: analytics.json is written at most once per run, and only after all
\* 20 calls have resolved and their results are in the report; no write is
\* attempted while a query is pending, and none in a run whose configuration
\* validation failed.
C13_WriteOnceAfterAllCalls ==
    /\ write_attempts <= 1
    /\ write_attempts = 0 => (disk = disk_at_start /\ ~write_failed)
    /\ write_attempts > 0 =>
         /\ ConfigurationValid
         /\ pc = "done"
         /\ in_flight = << >>
         /\ Len(served) = CatalogSize
         /\ \A n \in 1..CatalogSize : DictHas(all_metrics, "periodic_stats") /\
              (IF IsOneShot(n) THEN DictHas(all_metrics, QueryOf(n))
               ELSE LET periodic_stats == DictGet(all_metrics, "periodic_stats") IN
                    /\ DictHas(periodic_stats, PeriodOf(n))
                    /\ DictHas(DictGet(periodic_stats, PeriodOf(n)), QueryOf(n)))
    /\ ~ConfigurationValid => (write_attempts = 0 /\ disk = disk_at_start)

C13_Witness ==
    /\ pc = "done"
    /\ write_attempts = 1
    /\ disk.exists
    /\ disk # disk_at_start
    /\ Len(served) = CatalogSize

====
